---- MODULE Spec2Model ----
(***************************************************************************)
(* protoc-gen-insomniaenv: the plugin that turns proto service definitions *)
(* into an Insomnia export (workspace, environments, request groups,       *)
(* requests with mock JSON bodies).                                        *)
(*                                                                         *)
(* Two specifications:                                                     *)
(*   Spec      the plugin's Generate loop over the files to generate;      *)
(*   SpecMock  the call tree of generateMockMessage / generateMockField /  *)
(*             generateMockEnumValue, one call per step.                   *)
(*                                                                         *)
(* Go strings are TLA+ strings (TLC gives them Len, \o and SubSeq); Ord     *)
(* gives a character's byte value, so comparisons are Go's byte-wise ones. *)
(***************************************************************************)
EXTENDS Integers, Sequences, FiniteSets, TLC

(***************************************************************************)
(* Strings                                                                 *)
(***************************************************************************)
\* The printable ASCII characters 32..95 and 97..126, in byte order.
PrintableLo ==
    " !\"#$%&'()*+,-./0123456789:;<=>?@ABCDEFGHIJKLMNOPQRSTUVWXYZ[\\]^_"
PrintableHi == "abcdefghijklmnopqrstuvwxyz{|}~"

\* s[i-1] in Go: the i-th character of s, as a string.
Char(s, i) == SubSeq(s, i, i)

CharSet ==
    {SubSeq(PrintableLo, i, i) : i \in 1..Len(PrintableLo)}
        \cup {SubSeq(PrintableHi, i, i) : i \in 1..Len(PrintableHi)}
        \cup {"\t", "\n"}

OrdTable ==
    [c \in CharSet |->
        IF c = "\t" THEN 9
        ELSE IF c = "\n" THEN 10
        ELSE IF \E i \in 1..Len(PrintableLo) : SubSeq(PrintableLo, i, i) = c
             THEN 31 + (CHOOSE i \in 1..Len(PrintableLo) : SubSeq(PrintableLo, i, i) = c)
        ELSE 96 + (CHOOSE i \in 1..Len(PrintableHi) : SubSeq(PrintableHi, i, i) = c)]

Ord(c) == OrdTable[c]

\* []byte(s)
Bytes(s) == [i \in 1..Len(s) |-> Ord(Char(s, i))]

MinOf(a, b) == IF a < b THEN a ELSE b

\* Go's < on strings: byte-wise lexicographic, a proper prefix is smaller.
StrLess(a, b) ==
    \E i \in 1..(MinOf(Len(a), Len(b)) + 1) :
        /\ SubSeq(a, 1, i - 1) = SubSeq(b, 1, i - 1)
        /\ \/ i > Len(a) /\ i <= Len(b)
           \/ i <= Len(a) /\ i <= Len(b) /\ Ord(Char(a, i)) < Ord(Char(b, i))

HasSuffix(s, suffix) ==
    /\ Len(suffix) <= Len(s)
    /\ SubSeq(s, Len(s) - Len(suffix) + 1, Len(s)) = suffix

IsLower(c) == Ord(c) >= 97 /\ Ord(c) <= 122
IsUpper(c) == Ord(c) >= 65 /\ Ord(c) <= 90
IsDigit(c) == Ord(c) >= 48 /\ Ord(c) <= 57
ToUpper(c) == IF IsLower(c) THEN Char(PrintableLo, Ord(c) - 63) ELSE c

RECURSIVE Itoa(_)
Itoa(n) ==
    IF n < 0 THEN "-" \o Itoa(0 - n)
    ELSE IF n < 10 THEN Char(PrintableLo, n + 17)
    ELSE Itoa(n \div 10) \o Char(PrintableLo, (n % 10) + 17)

\* %0<w>d of a non-negative number.
RECURSIVE ZeroPad(_, _)
ZeroPad(s, w) == IF Len(s) >= w THEN s ELSE ZeroPad("0" \o s, w)

Quote(s) == "\"" \o s \o "\""

RECURSIVE Tabs(_)
Tabs(n) == IF n <= 0 THEN "" ELSE "\t" \o Tabs(n - 1)

protoFileExtension == ".proto"

trimSuffix(s, suffix) ==
    IF HasSuffix(s, suffix) THEN SubSeq(s, 1, Len(s) - Len(suffix)) ELSE s

\* strings.Title on ASCII: a letter that starts a word is upper-cased; letters,
\* digits and the underscore continue a word.
IsWordChar(c) == IsLower(c) \/ IsUpper(c) \/ IsDigit(c) \/ c = "_"
RECURSIVE TitleFrom(_, _)
TitleFrom(s, i) ==
    IF i > Len(s) THEN ""
    ELSE (IF i = 1 \/ ~IsWordChar(Char(s, i - 1)) THEN ToUpper(Char(s, i)) ELSE Char(s, i))
            \o TitleFrom(s, i + 1)

Title(s) == TitleFrom(s, 1)

getFileName(s) == Title(trimSuffix(s, protoFileExtension))

\* filepath.Ext: the suffix from the last dot of the last path element.
Ext(path) ==
    LET dots == {i \in 1..Len(path) :
                    /\ Char(path, i) = "."
                    /\ \A j \in i..Len(path) : Char(path, j) # "/"}
    IN  IF dots = {} THEN ""
        ELSE LET d == CHOOSE i \in dots : \A k \in dots : k <= i
             IN  SubSeq(path, d, Len(path))

\* stringutils.CamelCase on ASCII identifiers.
RECURSIVE CamelFrom(_, _, _)
CamelFrom(s, i, inWord) ==
    IF i > Len(s) THEN ""
    ELSE LET c == Char(s, i) IN
         IF inWord /\ IsLower(c) THEN c \o CamelFrom(s, i + 1, TRUE)
         ELSE IF c = "_" /\ i + 1 <= Len(s) /\ IsLower(Char(s, i + 1))
              THEN CamelFrom(s, i + 1, FALSE)
         ELSE IF IsDigit(c) THEN c \o CamelFrom(s, i + 1, FALSE)
         ELSE ToUpper(c) \o CamelFrom(s, i + 1, TRUE)

CamelCase(s) ==
    IF s = "" THEN ""
    ELSE IF Char(s, 1) = "_" THEN "X" \o CamelFrom(s, 2, FALSE)
    ELSE CamelFrom(s, 1, FALSE)

(***************************************************************************)
(* math/rand's global generator.  The generator itself is library code: it *)
(* is a deterministic function of its state, here a linear congruential    *)
(* step modulo RngMod.  Every rand call advances the state once.           *)
(***************************************************************************)
RngMod == 65537

rngNext(rng) == (75 * rng + 74) % RngMod

\* rand.Intn(n), rand.Int63n(n): the value drawn and the generator after it.
Intn(rng, n) == [val |-> rngNext(rng) % n, rng |-> rngNext(rng)]

\* rand.Float32(), a dyadic fraction in [0, 1): val / 16.
Float32(rng) == [val |-> rngNext(rng) % 16, rng |-> rngNext(rng)]

\* md5.New().Sum(nil) of a hash nothing was written to.
EmptyMd5 == <<212, 29, 140, 217, 143, 0, 178, 4, 233, 128, 9, 152, 236, 248, 66, 126>>

\* hash.Hash.Sum(b) appends the current digest to b; it does not write b
\* into the hash.
md5Sum(b) == b \o EmptyMd5

\* rand.Seed(int64(binary.BigEndian.Uint64(sum))): the generator's state
\* after seeding, the big-endian value reduced into the state space.
RECURSIVE BigEndianMod(_, _)
BigEndianMod(bytes, acc) ==
    IF bytes = <<>> THEN acc
    ELSE BigEndianMod(Tail(bytes), (acc * 256 + Head(bytes)) % RngMod)

randSeed(sum) == BigEndianMod(sum, 0)

(***************************************************************************)
(* Descriptors, as protoc hands them to the plugin                         *)
(***************************************************************************)
PkgP == "p"
NoPkg == ""

LABEL_OPTIONAL == "LABEL_OPTIONAL"
LABEL_REPEATED == "LABEL_REPEATED"

\* protoc's fully-qualified type name of the definition at `path` (the names
\* of the enclosing messages, then its own) in a file of package pkg.
ProtocTypeName(pkg, path) ==
    LET RECURSIVE Dotted(_)
        Dotted(p) == IF p = <<>> THEN "" ELSE "." \o Head(p) \o Dotted(Tail(p))
    IN  (IF pkg = "" THEN "" ELSE "." \o pkg) \o Dotted(path)

NoEnum == [scope |-> "none", value |-> <<>>]

\* A FieldDescriptorProto.  `enum` is not part of the descriptor: it records
\* where the enum of an enum-typed field is really defined ("message": nested
\* in the message that holds the field, "file": at the top level of that
\* message's file, "other": elsewhere) and its declared value names.
Field(name, label, type, typeName, enum) ==
    [name |-> name, jsonName |-> name, label |-> label,
     type |-> type, typeName |-> typeName, enum |-> enum]

Scalar(name, type) == Field(name, LABEL_OPTIONAL, type, "", NoEnum)
Repeated(name, type) == Field(name, LABEL_REPEATED, type, "", NoEnum)
MessageField(name, label, typeName) == Field(name, label, "TYPE_MESSAGE", typeName, NoEnum)
EnumField(name, typeName, scope, values) ==
    Field(name, LABEL_OPTIONAL, "TYPE_ENUM", typeName, [scope |-> scope, value |-> values])


EnumDescriptor(name, values) == [name |-> name, value |-> values]

ColorValues == <<"RED", "GREEN", "BLUE">>
KindValues == <<"BASIC", "PRO">>
ModeValues == <<"ON", "OFF">>
ShadeValues == <<"LIGHT", "DARK">>
ToneValues == <<"WARM", "COOL">>


\* types.proto, package p.
TypesFile ==
    [name |-> "types.proto", package |-> PkgP,
     enumType |-> <<EnumDescriptor("Color", ColorValues)>>,
     service |-> <<>>]

\* bare.proto, no package statement.
BareFile ==
    [name |-> "bare.proto", package |-> NoPkg,
     enumType |-> <<EnumDescriptor("Shade", ShadeValues)>>,
     service |-> <<>>]

Message(file, path, fields, enums) ==
    [fqn |-> ProtocTypeName(file.package, path),
     File |-> file,
     Descriptor |-> [name |-> path[Len(path)], field |-> fields, enumType |-> enums]]

\* The message definitions of the request's proto files, nested ones included.
Messages ==
    { Message(TypesFile, <<"User">>,
        <<Scalar("name", "TYPE_STRING"), Scalar("count", "TYPE_INT32")>>, <<>>),
      Message(TypesFile, <<"Profile">>,
        <<Repeated("flags", "TYPE_BOOL"),
          MessageField("owner", LABEL_OPTIONAL, ProtocTypeName(PkgP, <<"User">>)),
          EnumField("color", ProtocTypeName(PkgP, <<"Color">>), "file", ColorValues),
          EnumField("kind", ProtocTypeName(PkgP, <<"Profile", "Kind">>), "message", KindValues),
          Scalar("avatar", "TYPE_BYTES")>>,
        <<EnumDescriptor("Kind", KindValues)>>),
      Message(TypesFile, <<"Node">>,
        <<MessageField("next", LABEL_OPTIONAL, ProtocTypeName(PkgP, <<"Node">>))>>, <<>>),
      Message(TypesFile, <<"Tree">>,
        <<MessageField("children", LABEL_REPEATED, ProtocTypeName(PkgP, <<"Tree">>)),
          Scalar("weight", "TYPE_UINT32")>>, <<>>),
      Message(TypesFile, <<"Ping">>,
        <<MessageField("pong", LABEL_OPTIONAL, ProtocTypeName(PkgP, <<"Pong">>))>>, <<>>),
      Message(TypesFile, <<"Pong">>,
        <<MessageField("pings", LABEL_REPEATED, ProtocTypeName(PkgP, <<"Ping">>)),
          MessageField("ping", LABEL_OPTIONAL, ProtocTypeName(PkgP, <<"Ping">>))>>, <<>>),
      Message(TypesFile, <<"Event">>,
        <<MessageField("at", LABEL_OPTIONAL, ".google.protobuf.Timestamp"),
          MessageField("took", LABEL_OPTIONAL, ".google.protobuf.Duration"),
          MessageField("meta", LABEL_OPTIONAL, ".google.protobuf.Struct"),
          Scalar("score", "TYPE_DOUBLE"),
          Repeated("delta", "TYPE_SINT64"),
          Scalar("id", "TYPE_FIXED64"),
          Scalar("legacy", "TYPE_GROUP")>>, <<>>),
      Message(TypesFile, <<"Outer">>,
        <<MessageField("inner", LABEL_OPTIONAL, ProtocTypeName(PkgP, <<"Outer", "Inner">>)),
          EnumField("kind", ProtocTypeName(PkgP, <<"Profile", "Kind">>), "other", KindValues)>>,
        <<>>),
      Message(TypesFile, <<"Outer", "Inner">>,
        <<EnumField("mode", ProtocTypeName(PkgP, <<"Outer", "Inner", "Mode">>), "message", ModeValues),
          EnumField("color", ProtocTypeName(PkgP, <<"Color">>), "file", ColorValues)>>,
        <<EnumDescriptor("Mode", ModeValues)>>),
      Message(TypesFile, <<"Empty">>, <<>>, <<>>),
      Message(BareFile, <<"Plain">>,
        <<EnumField("shade", ProtocTypeName(NoPkg, <<"Shade">>), "file", ShadeValues),
          EnumField("tone", ProtocTypeName(NoPkg, <<"Plain", "Tone">>), "message", ToneValues)>>,
        <<EnumDescriptor("Tone", ToneValues)>>) }

\* registry.MessageDefinition(name): <<>> is Go's nil, <<m>> the definition.
MessageDefinition(typeName) ==
    IF \E m \in Messages : m.fqn = typeName
    THEN <<CHOOSE m \in Messages : m.fqn = typeName>>
    ELSE <<>>

(***************************************************************************)
(* The mock-value synthesizer.  Every operator returns the text produced   *)
(* and the generator's state after the draws it made.                      *)
(***************************************************************************)
maxDepth == 25

R(out, rng) == [out |-> out, rng |-> rng]

\* An off-by-one depth guard.
DepthExceeded(depth) == depth > maxDepth

\* The guard that opens generateMockField.
DepthReached(depth) == depth >= maxDepth

MaxDepthText ==
    "Max request depth of " \o Itoa(maxDepth)
        \o " reached. This may indicate some error with proto-to-insomnia parsing logic"

\* time.Unix(t, 0).Format(time.RFC3339), the zone taken as UTC.
FormatRFC3339(t) ==
    LET days == t \div 86400
        secs == t % 86400
        z    == days + 719468
        era  == z \div 146097
        doe  == z - era * 146097
        yoe  == (doe - doe \div 1460 + doe \div 36524 - doe \div 146096) \div 365
        doy  == doe - (365 * yoe + yoe \div 4 - yoe \div 100)
        mp   == (5 * doy + 2) \div 153
        d    == doy - (153 * mp + 2) \div 5 + 1
        m    == IF mp < 10 THEN mp + 3 ELSE mp - 9
        y    == yoe + era * 400 + (IF m <= 2 THEN 1 ELSE 0)
    IN  ZeroPad(Itoa(y), 4) \o "-" \o ZeroPad(Itoa(m), 2) \o "-" \o ZeroPad(Itoa(d), 2)
            \o "T" \o ZeroPad(Itoa(secs \div 3600), 2)
            \o ":" \o ZeroPad(Itoa((secs % 3600) \div 60), 2)
            \o ":" \o ZeroPad(Itoa(secs % 60), 2) \o "Z"

randomTimestamp(rng) ==
    LET r == Intn(rng, 1000000000)
    IN  R(FormatRFC3339(r.val + 94608000), r.rng)

\* fmt.Sprintf("%.4f", 1000*f - 500) for f = q/16: the value is
\* 62.5*q - 500, that is (625000*q - 5000000) / 10000.
FormatFloat4(q) ==
    LET x == 625000 * q - 5000000
        a == IF x < 0 THEN 0 - x ELSE x
    IN  (IF x < 0 THEN "-" ELSE "")
            \o Itoa(a \div 10000) \o "." \o ZeroPad(Itoa(a % 10000), 4)

letterRunes == "abcdefghijklmnopqrstuvwxyzABCDEFGHIJKLMNOPQRSTUVWXYZ"

\* The loop that fills the n runes, one draw each: w is what is filled so
\* far and the generator.
RECURSIVE RandomRunes(_, _)
RandomRunes(n, w) ==
    IF n = 0 THEN w
    ELSE CHOOSE out \in
            {RandomRunes(n - 1, R(w.out \o Char(letterRunes, r.val + 1), r.rng)) : r \in
                {Intn(w.rng, Len(letterRunes))}} : TRUE

generateRandomString(n, rng) == RandomRunes(n, R("", rng))

generateRandomEnumValue(enum, rng) ==
    LET r == Intn(rng, Len(enum.value))
    IN  R(enum.value[r.val + 1], r.rng)

checkEnumMessageMatch(enum, messageDefinition, field) ==
    field.typeName =
        "." \o messageDefinition.File.package
            \o "." \o messageDefinition.Descriptor.name
            \o "." \o enum.name

checkEnumFileMatch(enum, file, field) ==
    field.typeName = "." \o file.package \o "." \o enum.name

\* The first of the indices `hits`: where a loop that returns on a hit stops.
First(hits) == CHOOSE i \in hits : \A j \in hits : i <= j

generateMockEnumValue(messageDefinition, field, rng) ==
    LET msgEnums  == messageDefinition.Descriptor.enumType
        fileEnums == messageDefinition.File.enumType
        msgHits  == {i \in 1..Len(msgEnums) :
                        checkEnumMessageMatch(msgEnums[i], messageDefinition, field)}
        fileHits == {i \in 1..Len(fileEnums) :
                        checkEnumFileMatch(fileEnums[i], messageDefinition.File, field)}
    IN  IF msgHits # {}
        THEN LET v == generateRandomEnumValue(msgEnums[First(msgHits)], rng)
             IN  R(Quote(v.out), v.rng)
        ELSE IF fileHits # {}
        THEN LET v == generateRandomEnumValue(fileEnums[First(fileHits)], rng)
             IN  R(Quote(v.out), v.rng)
        ELSE R(Quote(field.typeName), rng)

SignedTypes ==
    {"TYPE_SFIXED32", "TYPE_SFIXED64", "TYPE_SINT32", "TYPE_SINT64", "TYPE_INT64", "TYPE_INT32"}
UnsignedTypes == {"TYPE_FIXED64", "TYPE_FIXED32", "TYPE_UINT32", "TYPE_UINT64"}

\* What generateMockField does with a field before any recursion:
\*   "max"     the depth guard returned the placeholder;
\*   "leaf"    a value was produced without resolving a message;
\*   "missing" the message type was looked up and not found;
\*   "recurse" the message type was looked up and generateMockMessage is
\*             called on it with depth + 1.
FieldCall(field, depth) ==
    IF DepthReached(depth) THEN [kind |-> "max", resolved |-> FALSE]
    ELSE IF field.typeName \in {".google.protobuf.Timestamp",
                                ".google.protobuf.Duration",
                                ".google.protobuf.Struct"}
    THEN [kind |-> "leaf", resolved |-> FALSE]
    ELSE IF field.type \in {"TYPE_MESSAGE", "TYPE_BYTES"}
    THEN IF MessageDefinition(field.typeName) = <<>>
         THEN [kind |-> "missing", resolved |-> TRUE]
         ELSE [kind |-> "recurse", resolved |-> TRUE]
    ELSE [kind |-> "leaf", resolved |-> FALSE]

\* generateMockField on a field that does not recurse.
MockLeaf(messageDefinition, field, rng) ==
    IF field.typeName = ".google.protobuf.Timestamp"
    THEN LET t == randomTimestamp(rng) IN R(Quote(t.out), t.rng)
    ELSE IF field.typeName = ".google.protobuf.Duration"
    THEN LET a == Intn(rng, 1000)
             b == Intn(a.rng, 100)
         IN  R(Quote(Itoa(a.val) \o "." \o ZeroPad(Itoa(b.val), 3) \o "s"), b.rng)
    ELSE IF field.typeName = ".google.protobuf.Struct"
    THEN R("{\"this field named " \o field.name
            \o " contains\": \"a dynamically typed map.\", \"As input,\": \"you can pass any JSON object\"}",
           rng)
    ELSE IF field.type \in {"TYPE_DOUBLE", "TYPE_FLOAT"}
    THEN LET f == Float32(rng) IN R(FormatFloat4(f.val), f.rng)
    ELSE IF field.type \in SignedTypes
    THEN LET r == Intn(rng, 1000) IN R(Itoa(r.val - 500), r.rng)
    ELSE IF field.type \in UnsignedTypes
    THEN LET r == Intn(rng, 1000) IN R(Itoa(r.val), r.rng)
    ELSE IF field.type = "TYPE_BOOL"
    THEN LET f == Float32(rng) IN R(IF 2 * f.val < 16 THEN "false" ELSE "true", f.rng)
    ELSE IF field.type = "TYPE_STRING"
    THEN LET g == generateRandomString(10, rng) IN R(Quote(g.out), g.rng)
    ELSE IF field.type = "TYPE_ENUM"
    THEN generateMockEnumValue(messageDefinition, field, rng)
    ELSE R("\"PARSE_ERROR\"", rng)

\* The depth generateMockMessage passes to generateMockField for a field.
FieldDepth(field, depth) ==
    IF field.label = LABEL_REPEATED THEN depth + 1 ELSE depth

\* A text being written and the generator's state after the draws made for
\* it.  The synthesizer's functions return strings that their callers
\* append to what they have; here each takes what is written so far and
\* returns it with its own text appended.
Emit(w, s) == R(w.out \o s, w.rng)
EmitR(w, r) == R(w.out \o r.out, r.rng)

RECURSIVE generateMockMessage(_, _, _)
RECURSIVE generateMockField(_, _, _, _)
RECURSIVE MockFieldsFrom(_, _, _, _)
RECURSIVE MockElementsFrom(_, _, _, _, _)

generateMockField(messageDefinition, field, depth, w) ==
    LET call == FieldCall(field, depth)
    IN  IF call.kind = "max" THEN Emit(w, MaxDepthText)
        ELSE IF call.kind = "missing"
        THEN Emit(w, "\"Message " \o field.typeName \o " could not be found\"")
        ELSE IF call.kind = "recurse"
        THEN generateMockMessage(MessageDefinition(field.typeName)[1], depth + 1, w)
        ELSE EmitR(w, MockLeaf(messageDefinition, field, w.rng))

\* The three elements of a repeated field, from element i on.
MockElementsFrom(messageDefinition, field, depth, i, w) ==
    IF i >= 3 THEN w
    ELSE CHOOSE out \in
            {MockElementsFrom(messageDefinition, field, depth, i + 1, v) : v \in
                {Emit(generateMockField(messageDefinition, field, FieldDepth(field, depth),
                                        Emit(w, Tabs(depth + 2))),
                      IF i < 2 THEN ",\n" ELSE "\n")}} : TRUE

\* One turn of the loop over the message's fields: field idx (1-based).
MockFieldAt(messageDefinition, idx, depth, w) ==
    LET field == messageDefinition.Descriptor.field[idx]
        last  == idx = Len(messageDefinition.Descriptor.field)
    IN  IF field.label = LABEL_REPEATED
        THEN Emit(MockElementsFrom(messageDefinition, field, depth, 0,
                     Emit(w, Tabs(depth + 1) \o Quote(field.jsonName) \o ": [\n")),
                  Tabs(depth + 1) \o (IF last THEN "]\n" ELSE "],\n"))
        ELSE Emit(generateMockField(messageDefinition, field, FieldDepth(field, depth),
                     Emit(w, Tabs(depth + 1) \o Quote(field.jsonName) \o ": ")),
                  IF last THEN "\n" ELSE ",\n")

\* The loop over the message's fields, from field idx on.
MockFieldsFrom(messageDefinition, idx, depth, w) ==
    IF idx > Len(messageDefinition.Descriptor.field) THEN w
    ELSE CHOOSE out \in
            {MockFieldsFrom(messageDefinition, idx + 1, depth, v) : v \in
                {MockFieldAt(messageDefinition, idx, depth, w)}} : TRUE

generateMockMessage(messageDefinition, depth, w) ==
    Emit(MockFieldsFrom(messageDefinition, 1, depth, Emit(w, "{\n")), Tabs(depth) \o "}")

(***************************************************************************)
(* The plugin's inputs                                                     *)
(***************************************************************************)
MaxFiles == 2
MaxServices == 2
MaxMethods == 2
MaxEnvs == 2

\* Sequences over S without repetition, of length at most n.
InjectiveSeqs(S, n) ==
    UNION {{q \in [1..k -> S] : \A i, j \in 1..k : q[i] = q[j] => i = j} : k \in 0..n}

\* A JSON value: t is "null", "string", "number", "array" or "object"; s is a
\* string's text; members maps an object's keys to their values.
JNull == [t |-> "null", s |-> "", members |-> <<>>]
JString(s) == [t |-> "string", s |-> s, members |-> <<>>]
JNumber == [t |-> "number", s |-> "", members |-> <<>>]
JObject(members) == [t |-> "object", s |-> "", members |-> members]

\* The map with the one entry key -> value.
Map1(key, value) == [k \in {key} |-> value]

\* The plugin's parameter (*string): nil, or a text that is empty, is not
\* JSON, or is the JSON value `value`.
NilParam == [ptr |-> "nil", len |-> 0, json |-> <<>>]
EmptyParam == [ptr |-> "set", len |-> 0, json |-> <<>>]
GarbageParam == [ptr |-> "set", len |-> 1, json |-> <<>>]
JsonParam(value) == [ptr |-> "set", len |-> 1, json |-> <<value>>]

EnvNames == {"Staging", "Production", "BaseEnvironment"}

EnvUrl(name) == "http://" \o name

EnvironmentsKey == "environments"

Params ==
    {NilParam, EmptyParam, GarbageParam,
     JsonParam(JNull),
     JsonParam(JNumber),
     JsonParam(JObject(<<>>)),
     JsonParam(JObject(Map1(EnvironmentsKey, JNull))),
     JsonParam(JObject(Map1(EnvironmentsKey, JString("Staging")))),
     JsonParam(JObject(Map1(EnvironmentsKey, JObject(Map1("Staging", JNumber)))))}
    \cup
    {JsonParam(JObject(Map1(EnvironmentsKey, JObject([n \in names |-> JString(EnvUrl(n))])))) :
        names \in {N \in SUBSET EnvNames : Cardinality(N) <= MaxEnvs}}

Method(name, input, leading) ==
    [name |-> name, inputType |-> ProtocTypeName(PkgP, <<input>>), leading |-> leading]

MethodCatalogue ==
    {Method("GetUser", "User", " Fetches one user.\n"),
     Method("AddProfile", "Profile", "")}

\* The names of a file's services, in declaration order.
ServiceNames == <<"Users", "Admin", "Billing">>

RECURSIVE SumLen(_)
SumLen(methodLists) ==
    IF methodLists = <<>> THEN 0 ELSE Len(Head(methodLists)) + SumLen(Tail(methodLists))

\* The service lists of a file with at most n services: each service's
\* methods in any declaration order, at most MaxMethods methods in all.
ServiceLists(n) ==
    {[k \in 1..Len(ml) |-> [name |-> ServiceNames[k], method |-> ml[k]]] :
        ml \in {q \in UNION {[1..k -> InjectiveSeqs(MethodCatalogue, MaxMethods)] :
                                k \in 1..MinOf(n, Len(ServiceNames))} :
                    SumLen(q) <= MaxMethods}}

\* The files that declare services: a.proto in package p, with up to
\* MaxServices services, and api/b.v1.proto, without a package, with one.
\* Their messages are those of types.proto.
ServiceFiles ==
    {[name |-> "a.proto", package |-> PkgP, enumType |-> <<>>, service |-> ss] :
        ss \in ServiceLists(MaxServices)}
    \cup
    {[name |-> "api/b.v1.proto", package |-> NoPkg, enumType |-> <<>>, service |-> ss] :
        ss \in ServiceLists(1)}

\* protogen.FilesToGenerate(in): the files named on protoc's command line,
\* each file once.
FileLists ==
    {fs \in UNION {[1..k -> ServiceFiles \cup {TypesFile}] : k \in 1..MaxFiles} :
        \A i, j \in 1..Len(fs) : fs[i].name = fs[j].name => i = j}

(***************************************************************************)
(* The resource graph builder                                              *)
(***************************************************************************)
Resource(type, id, parentId, name) ==
    [Type |-> type, ID |-> id, ParentID |-> parentId, Name |-> name]

\* A *string: <<>> is nil.
Ptr(s) == <<s>>

generateWorkspace(file) ==
    LET id == "workspace-" \o file.name \o "-" \o file.package
    IN  [workspace |-> [Resource |-> Resource("workspace", id, <<>>, getFileName(file.name))],
         id |-> id]

pkgName(file) == file.package

fullServiceName(file, service) ==
    LET name == CamelCase(service.name)
    IN  IF pkgName(file) # "" THEN pkgName(file) \o "." \o name ELSE name

pathPrefix(file, service) == "/twirp/" \o fullServiceName(file, service) \o "/"

\* json.Unmarshal([]byte(*param), &config) for Config{Environments
\* map[string]string `json:"environments"`}: the error, if any, and the map.
Unmarshal(param) ==
    LET NoMap == <<>>
        Result(err, envs) == [err |-> err, Environments |-> envs]
    IN  IF param.json = <<>> THEN Result(<<"SyntaxError">>, NoMap)
        ELSE LET v == param.json[1] IN
             IF v.t = "null" THEN Result(<<>>, NoMap)
             ELSE IF v.t # "object" THEN Result(<<"UnmarshalTypeError">>, NoMap)
             ELSE IF EnvironmentsKey \notin DOMAIN v.members THEN Result(<<>>, NoMap)
             ELSE LET e == v.members[EnvironmentsKey] IN
                  IF e.t = "null" THEN Result(<<>>, NoMap)
                  ELSE IF e.t # "object" THEN Result(<<"UnmarshalTypeError">>, NoMap)
                  ELSE Result(
                         IF \E n \in DOMAIN e.members : e.members[n].t \notin {"string", "null"}
                         THEN <<"UnmarshalTypeError">> ELSE <<>>,
                         [n \in DOMAIN e.members |-> e.members[n].s])

\* The orders in which `for name, url := range m` may visit the map m.
RangeOrders(m) ==
    LET n == Cardinality(DOMAIN m)
    IN  {o \in [1..n -> DOMAIN m] : \A i, j \in 1..n : o[i] = o[j] => i = j}

Environment(id, parentId, name, data) ==
    [Resource |-> Resource("environment", id, parentId, name), Data |-> data]

\* Whether generateEnvironment parses the parameter.
ParsesConfig(param) == param.ptr # "nil" /\ param.len > 0

\* A generateEnvironment that skips a configuration it cannot parse.
generateEnvironmentSkippingConfig(workspaceID, param, order) ==
    [envs |-> <<Environment("BaseEnvironment", Ptr(workspaceID), "Base", <<>>)>>, err |-> <<>>]

\* generateEnvironment; order is the order the range over the map takes.
generateEnvironment(workspaceID, param, order) ==
    LET baseEnvName == "BaseEnvironment"
        base == Environment(baseEnvName, Ptr(workspaceID), "Base", <<>>)
        config == Unmarshal(param)
        configured ==
            IF ParsesConfig(param)
            THEN [i \in 1..Len(order) |->
                    Environment(order[i], Ptr(baseEnvName), order[i],
                                Map1("base_url", config.Environments[order[i]]))]
            ELSE <<>>
        https == Environment("LocalhostHttps", Ptr(baseEnvName), "Localhost - Https",
                             Map1("base_url", "https://localhost:8000"))
        http  == Environment("LocalhostHttp", Ptr(baseEnvName), "Localhost - Http",
                             Map1("base_url", "http://localhost:8000"))
    IN  IF ParsesConfig(param) /\ config.err # <<>>
        THEN [envs |-> <<>>, err |-> config.err]
        ELSE [envs |-> <<base>> \o configured \o <<https, http>>, err |-> <<>>]

\* The orders generateEnvironment's range may take for a parameter.
EnvOrders(param) ==
    IF ParsesConfig(param) /\ Unmarshal(param).err = <<>>
    THEN RangeOrders(Unmarshal(param).Environments)
    ELSE {<<>>}

\* sort.SliceStable(requests, requests[i].ID < requests[j].ID).
RECURSIVE InsertStable(_, _)
InsertStable(sorted, x) ==
    IF sorted = <<>> THEN <<x>>
    ELSE IF StrLess(x.Resource.ID, Head(sorted).Resource.ID) THEN <<x>> \o sorted
    ELSE <<Head(sorted)>> \o InsertStable(Tail(sorted), x)

RECURSIVE SortStableFrom(_, _, _)
SortStableFrom(requests, i, sorted) ==
    IF i > Len(requests) THEN sorted
    ELSE SortStableFrom(requests, i + 1, InsertStable(sorted, requests[i]))

\* The requests left in declaration order.
DeclarationOrder(requests) == requests

SortByID(requests) == SortStableFrom(requests, 1, <<>>)

\* No seeding: the generator is left as the previous draws left it.
KeepGenerator(rng, method) == rng

\* The seeding that precedes a method's synthesis: the generator's state
\* after rand.Seed, whatever it was before.
SeedForMethod(rng, method) == randSeed(SubSeq(md5Sum(Bytes(method.name)), 1, 8))

MakeRequest(service, method, requestGroupID, output) ==
    [Resource |-> Resource("request",
                           "request-" \o service.name \o "-" \o method.name,
                           Ptr(requestGroupID), method.name),
     Method |-> "POST",
     URL |-> "{{" \o service.name \o "}}" \o method.name,
     Headers |-> <<[name |-> "Content-Type", value |-> "application/json"]>>,
     Body |-> [MimeType |-> "application/json", Text |-> output],
     Description |-> method.leading]

\* One turn of the loop over a service's methods: seed, synthesize, append
\* the request.  acc holds the requests so far and the generator.
WithMock(service, method, requestGroupID, requests, mock) ==
    [requests |-> Append(requests, MakeRequest(service, method, requestGroupID, mock.out)),
     rng |-> mock.rng]

MethodAt(service, requestGroupID, j, acc) ==
    WithMock(service, service.method[j], requestGroupID, acc.requests,
             generateMockMessage(MessageDefinition(service.method[j].inputType)[1], 0,
                                 R("", SeedForMethod(acc.rng, service.method[j]))))

RECURSIVE MethodsFrom(_, _, _, _)
MethodsFrom(service, requestGroupID, j, acc) ==
    IF j > Len(service.method) THEN acc
    ELSE CHOOSE out \in
            {MethodsFrom(service, requestGroupID, j + 1, v) : v \in
                {MethodAt(service, requestGroupID, j, acc)}} : TRUE

\* A service's requests put before its request group.
RequestsBeforeGroup(requestGroup, requests) == SortByID(requests) \o <<requestGroup>>

\* What one service adds to the resource list.
ServiceResources(requestGroup, requests) == <<requestGroup>> \o SortByID(requests)

WithMethods(resources, requestGroup, methods) ==
    [resources |-> resources \o ServiceResources(requestGroup, methods.requests),
     rng |-> methods.rng]

\* One turn of the loop over the file's services.  acc holds the resources so
\* far and the generator.
ServiceAt(workspaceID, file, k, acc) ==
    LET service == file.service[k]
        requestGroupID == "request_group-" \o service.name
        requestGroup ==
            [Resource |-> Resource("request_group", requestGroupID, Ptr(workspaceID), service.name),
             Environment |-> Map1(service.name, "{{ base_url }}" \o pathPrefix(file, service))]
    IN  WithMethods(acc.resources, requestGroup,
                    MethodsFrom(service, requestGroupID, 1, [requests |-> <<>>, rng |-> acc.rng]))

RECURSIVE ServicesFrom(_, _, _, _)
ServicesFrom(workspaceID, file, k, acc) ==
    IF k > Len(file.service) THEN acc
    ELSE CHOOSE out \in
            {ServicesFrom(workspaceID, file, k + 1, v) : v \in
                {ServiceAt(workspaceID, file, k, acc)}} : TRUE

generateMethods(workspaceID, file, rng) ==
    ServicesFrom(workspaceID, file, 1, [resources |-> <<>>, rng |-> rng])

\* The end of generate, once the environments are there.
Export(file, param, workspace, envs, methods) ==
    [file |->
        <<[Name |-> trimSuffix(file.name, Ext(file.name)) \o "-insomnia-env.json",
           Content |->
             [ExportType |-> "export",
              ExportFormat |-> 3,
              ExportSource |-> "protoc-gen-insomniaenv",
              Resources |-> <<workspace>> \o envs \o methods.resources]]>>,
     err |-> <<>>, rng |-> methods.rng, parsed |-> ParsesConfig(param)]

\* generate: the response file (<<>> is nil), the error (<<>> is nil), the
\* generator afterwards and whether the parameter was parsed.  The content
\* is the export before json.MarshalIndent renders it.
generate(file, param, order, rng) ==
    IF Len(file.service) = 0
    THEN [file |-> <<>>, err |-> <<>>, rng |-> rng, parsed |-> FALSE]
    ELSE LET ws  == generateWorkspace(file)
             env == generateEnvironment(ws.id, param, order)
         IN  IF env.err # <<>>
             THEN [file |-> <<>>, err |-> env.err, rng |-> rng, parsed |-> ParsesConfig(param)]
             ELSE Export(file, param, ws.workspace, env.envs, generateMethods(ws.id, file, rng))

(***************************************************************************)
(* State                                                                   *)
(***************************************************************************)
VARIABLES
    filesToGenerate,  \* Generate: the files protoc asked for
    parameter,        \* Generate: in.Parameter
    idx,              \* Generate: the files its loop has been through
    resp,             \* Generate: resp.File, each entry <<>> (nil) or <<file>>
    ret,              \* Generate: what it returned, once done
    lastGenerate,     \* the return value of the latest call of generate
    unmarshalCalls,   \* the calls of json.Unmarshal so far
    rngState,         \* math/rand's global generator
    pc,               \* synthesizer: "idle", "message" (in generateMockMessage), "done"
    cur,              \* synthesizer: the type name of the message being synthesized
    depth,            \* synthesizer: generateMockMessage's depth argument
    call              \* synthesizer: the latest call of generateMockField

genVars == <<filesToGenerate, parameter, idx, resp, ret, lastGenerate, unmarshalCalls>>
mockVars == <<pc, cur, depth, call>>
vars == <<genVars, rngState, mockVars>>

MaxInitialRng == 2

\* The generator's state when the plugin starts.
InitialRng == 1..MaxInitialRng

Running == [done |-> FALSE, resp |-> <<>>, err |-> <<>>]
NoCall == [msg |-> "", field |-> 0, depth |-> 0, kind |-> "none", resolved |-> FALSE, out |-> ""]

GenIdle ==
    /\ filesToGenerate = <<>>
    /\ parameter = NilParam
    /\ idx = 0
    /\ resp = <<>>
    /\ ret = Running
    /\ lastGenerate = <<>>
    /\ unmarshalCalls = 0

MockIdle ==
    /\ pc = "idle"
    /\ cur = ""
    /\ depth = 0
    /\ call = NoCall

(***************************************************************************)
(* Generate                                                                *)
(***************************************************************************)
Init ==
    /\ filesToGenerate \in FileLists
    /\ parameter \in Params
    /\ idx = 0
    /\ resp = <<>>
    /\ ret = Running
    /\ lastGenerate = <<>>
    /\ unmarshalCalls = 0
    /\ rngState = 1
    /\ MockIdle

\* One turn of Generate's loop: generate(file, in.Parameter), then either
\* return its error or append what it returned to resp.File.
GenerateFile(order) ==
    /\ ~ret.done
    /\ idx < Len(filesToGenerate)
    /\ \E g \in {generate(filesToGenerate[idx + 1], parameter, order, rngState)} :
           /\ lastGenerate' = <<[file |-> g.file, err |-> g.err]>>
           /\ rngState' = g.rng
           /\ unmarshalCalls' = unmarshalCalls + (IF g.parsed THEN 1 ELSE 0)
           /\ \/ /\ g.err # <<>>
                 /\ ret' = [done |-> TRUE, resp |-> <<>>, err |-> g.err]
                 /\ UNCHANGED <<idx, resp>>
              \/ /\ g.err = <<>>
                 /\ resp' = Append(resp, g.file)
                 /\ idx' = idx + 1
                 /\ UNCHANGED ret
    /\ UNCHANGED <<filesToGenerate, parameter, mockVars>>

\* The loop is over: return resp, nil.
GenerateReturn ==
    /\ ~ret.done
    /\ idx = Len(filesToGenerate)
    /\ ret' = [done |-> TRUE, resp |-> <<[File |-> resp]>>, err |-> <<>>]
    /\ UNCHANGED <<filesToGenerate, parameter, idx, resp, lastGenerate, unmarshalCalls,
                   rngState, mockVars>>

Next ==
    \/ \E order \in EnvOrders(parameter) : GenerateFile(order)
    \/ GenerateReturn

Spec == Init /\ [][Next]_vars

(***************************************************************************)
(* The synthesizer's call tree.  A behaviour follows one path of calls     *)
(* from generateMockMessage(msg, 0): at each message any field of its loop *)
(* may be the one followed.  The recursion has finitely many branches at   *)
(* each call, so it terminates iff every such path ends.                   *)
(***************************************************************************)
InitMock ==
    /\ GenIdle
    /\ rngState \in InitialRng
    /\ pc = "message"
    /\ cur \in {m.fqn : m \in Messages}
    /\ depth = 0
    /\ call = NoCall

CurMessage == MessageDefinition(cur)[1]

\* generateMockMessage on a message without fields returns at once.
MockMessageEmpty ==
    /\ pc = "message"
    /\ CurMessage.Descriptor.field = <<>>
    /\ pc' = "done"
    /\ UNCHANGED <<cur, depth, call, rngState, genVars>>

\* generateMockMessage calls generateMockField on field i, which resolves the
\* field's message type and calls generateMockMessage on it.
MockFieldRecurse(i) ==
    /\ pc = "message"
    /\ i \in 1..Len(CurMessage.Descriptor.field)
    /\ LET field == CurMessage.Descriptor.field[i]
           d     == FieldDepth(field, depth)
           c     == FieldCall(field, d)
       IN  /\ c.kind = "recurse"
           /\ call' = [msg |-> cur, field |-> i, depth |-> d, kind |-> c.kind,
                       resolved |-> c.resolved, out |-> ""]
           /\ cur' = field.typeName
           /\ depth' = d + 1
    /\ UNCHANGED <<pc, rngState, genVars>>

\* generateMockMessage calls generateMockField on field i, which returns
\* without calling generateMockMessage.
MockFieldReturn(i) ==
    /\ pc = "message"
    /\ i \in 1..Len(CurMessage.Descriptor.field)
    /\ LET field == CurMessage.Descriptor.field[i]
           d     == FieldDepth(field, depth)
           c     == FieldCall(field, d)
       IN  /\ c.kind # "recurse"
           /\ \E v \in {generateMockField(CurMessage, field, d, R("", rngState))} :
                 /\ call' = [msg |-> cur, field |-> i, depth |-> d, kind |-> c.kind,
                             resolved |-> c.resolved, out |-> v.out]
                 /\ rngState' = v.rng
    /\ pc' = "done"
    /\ UNCHANGED <<cur, depth, genVars>>

FieldIndices == UNION {1..Len(m.Descriptor.field) : m \in Messages}

NextMock ==
    \/ MockMessageEmpty
    \/ \E i \in FieldIndices : MockFieldRecurse(i)
    \/ \E i \in FieldIndices : MockFieldReturn(i)

\* The plugin is one thread that runs to completion: a call that can be made
\* is made.
SpecMock == InitMock /\ [][NextMock]_vars /\ WF_vars(NextMock)

(***************************************************************************)
(* Properties                                                              *)
(***************************************************************************)
\* The latest call of generate returned a document.
HasDocument == lastGenerate # <<>> /\ lastGenerate[1].file # <<>>

\* That document's resource list, and the file it was generated for.
Document == lastGenerate[1].file[1].Content.Resources
DocumentFile == filesToGenerate[idx]

\* The resource lists of the documents in the response so far.
AllDocuments ==
    {resp[i][1].Content.Resources : i \in {j \in 1..Len(resp) : resp[j] # <<>>}}

OfType(resources, type) == {i \in DOMAIN resources : resources[i].Resource.Type = type}

AllRequests == UNION {{d[k] : k \in OfType(d, "request")} : d \in AllDocuments}

\* The ids of a document's environments, in the order they appear.
EnvironmentIDs(resources) ==
    LET IsEnvironment(r) == r.Resource.Type = "environment"
        envs == SelectSeq(resources, IsEnvironment)
    IN  [i \in 1..Len(envs) |-> envs[i].Resource.ID]

\* The parameter is non-empty and json.Unmarshal rejects it.
MalformedParam == ParsesConfig(parameter) /\ Unmarshal(parameter).err # <<>>

\* Resource i reaches the workspace in at most `steps` parentId links,
\* whichever resource of that id each link is resolved to.
RECURSIVE ReachesWorkspace(_, _, _)
ReachesWorkspace(resources, i, steps) ==
    LET r == resources[i].Resource
        targets == {j \in DOMAIN resources : <<resources[j].Resource.ID>> = r.ParentID}
    IN  IF r.Type = "workspace" THEN TRUE
        ELSE IF steps = 0 THEN FALSE
        ELSE targets # {} /\ \A j \in targets : ReachesWorkspace(resources, j, steps - 1)

\* C1: in the document generate builds for a file with services and a
\* configuration that parses, no two resources have the same _id.
UniqueResourceIDs ==
    HasDocument =>
        \A i, j \in DOMAIN Document :
            Document[i].Resource.ID = Document[j].Resource.ID => i = j

\* C2: the document holds exactly one workspace, and from every resource the
\* parentId links lead to it in finitely many steps, without a cycle or a
\* dead end.
ParentChainsReachWorkspace ==
    HasDocument =>
        /\ Cardinality(OfType(Document, "workspace")) = 1
        /\ \A i \in DOMAIN Document : ReachesWorkspace(Document, i, Len(Document))

\* C3: every resource with a parentId comes after a resource with that _id,
\* and the only resource without a parentId is the workspace, which is first.
ParentBeforeChildren ==
    HasDocument =>
        /\ Document[1].Resource.Type = "workspace"
        /\ \A i \in DOMAIN Document :
              IF Document[i].Resource.ParentID = <<>>
              THEN i = 1
              ELSE \E j \in 1..(i - 1) :
                      <<Document[j].Resource.ID>> = Document[i].Resource.ParentID

\* A document with configured environments, two request groups and requests.
ParentBeforeChildrenWitness ==
    /\ HasDocument
    /\ Cardinality(OfType(Document, "environment")) > 3
    /\ Cardinality(OfType(Document, "request_group")) = 2
    /\ Cardinality(OfType(Document, "request")) = 2

\* C4: a method's mock body depends on its name and input type only: any two
\* requests of one run for the same method carry the same body text,
\* whatever was synthesized before each.
SameMethodSameBody ==
    \A r1, r2 \in AllRequests :
        r1.Resource.Name = r2.Resource.Name => r1.Body.Text = r2.Body.Text

\* Two documents hold a request for GetUser: in one it is the first method
\* synthesized, in the other it follows AddProfile in its service.
SameMethodSameBodyWitness ==
    \E i, j \in 1..Len(resp) :
        /\ resp[i] # <<>> /\ resp[j] # <<>>
        /\ filesToGenerate[i].service[1].method # <<>>
        /\ filesToGenerate[i].service[1].method[1].name = "GetUser"
        /\ \E k \in DOMAIN filesToGenerate[j].service :
              LET methods == filesToGenerate[j].service[k].method
              IN  Len(methods) = 2 /\ methods[1].name = "AddProfile"
                                   /\ methods[2].name = "GetUser"

\* C5: a file without services adds no entry to the response's file list,
\* not even a nil one, and the configuration is not parsed for it.
NoEntryForFileWithoutServices ==
    LET withServices == {i \in 1..idx : Len(filesToGenerate[i].service) > 0}
    IN  /\ Len(resp) = Cardinality(withServices)
        /\ \A i \in 1..Len(resp) : resp[i] # <<>>
        /\ unmarshalCalls =
              IF ParsesConfig(parameter)
              THEN Cardinality(withServices) + (IF ret.err # <<>> THEN 1 ELSE 0)
              ELSE 0

\* C6: the requests of each service directly follow its request group, in
\* ascending order of _id, whatever the declaration order of its methods;
\* the request groups are in the services' declaration order.
RequestsSortedAfterGroup ==
    HasDocument =>
        LET IsGroup(r) == r.Resource.Type = "request_group"
            groups == SelectSeq(Document, IsGroup)
        IN  /\ Len(groups) = Len(DocumentFile.service)
            /\ \A k \in 1..Len(groups) :
                  /\ groups[k].Resource.Name = DocumentFile.service[k].name
                  /\ Cardinality({i \in OfType(Document, "request") :
                                    Document[i].Resource.ParentID = <<groups[k].Resource.ID>>})
                       = Len(DocumentFile.service[k].method)
            /\ \A i \in OfType(Document, "request") :
                  /\ i > 1
                  /\ \/ /\ Document[i - 1].Resource.Type = "request_group"
                        /\ <<Document[i - 1].Resource.ID>> = Document[i].Resource.ParentID
                     \/ /\ Document[i - 1].Resource.Type = "request"
                        /\ Document[i - 1].Resource.ParentID = Document[i].Resource.ParentID
                        /\ StrLess(Document[i - 1].Resource.ID, Document[i].Resource.ID)

\* A document for a service that declares GetUser before AddProfile.
RequestsSortedAfterGroupWitness ==
    /\ HasDocument
    /\ \E k \in DOMAIN DocumentFile.service :
          LET methods == DocumentFile.service[k].method
          IN  Len(methods) = 2 /\ methods[1].name = "GetUser"
                               /\ methods[2].name = "AddProfile"

\* C7: generateMockMessage(msg, 0) terminates; generateMockField returns the
\* placeholder, without resolving the type or recursing, whenever its depth
\* is at least maxDepth, and generateMockMessage never runs deeper than
\* maxDepth.
DepthCeilingTerminates ==
    /\ [](pc = "message" => depth <= maxDepth)
    /\ [](call.kind # "none" /\ call.depth >= maxDepth =>
             call.kind = "max" /\ ~call.resolved /\ call.out = MaxDepthText)
    /\ <>(pc = "done")

\* The walk of a self-referential message ended at the depth guard.
DepthCeilingWitness ==
    pc = "done" /\ call.kind = "max" /\ call.depth >= maxDepth /\ cur = call.msg

\* C8: with a non-empty parameter that does not parse, generate returns an
\* error and no document for a file with services, and Generate returns the
\* error and no response.
MalformedConfigAborts ==
    MalformedParam =>
        /\ \A i \in 1..idx : Len(filesToGenerate[i].service) = 0
        /\ lastGenerate # <<>> => lastGenerate[1].file = <<>>
        /\ \A i \in 1..Len(resp) : resp[i] = <<>>
        /\ (lastGenerate # <<>> /\ lastGenerate[1].err # <<>>) =>
                 ret = [done |-> TRUE, resp |-> <<>>, err |-> lastGenerate[1].err]
        /\ (ret.done /\ \E i \in DOMAIN filesToGenerate : Len(filesToGenerate[i].service) > 0) =>
                 ret.resp = <<>> /\ ret.err # <<>> /\ lastGenerate[1].err = ret.err

\* Generate returned the error of a parameter that does not parse, on the
\* second file of the request.
MalformedConfigAbortsWitness ==
    MalformedParam /\ ret.done /\ ret.err # <<>> /\ idx = 1
        /\ lastGenerate[1] = [file |-> <<>>, err |-> ret.err]

\* C9: for an enum-typed field whose enum is nested in the current message
\* or declared at the top level of the current file, whatever the package,
\* the value is the quoted name of one of the enum's declared values;
\* otherwise it is the quoted type name.
EnumResolvedInScope ==
    (call.kind = "leaf"
        /\ MessageDefinition(call.msg)[1].Descriptor.field[call.field].type = "TYPE_ENUM") =>
        LET field == MessageDefinition(call.msg)[1].Descriptor.field[call.field]
        IN  IF field.enum.scope \in {"message", "file"}
            THEN \E v \in DOMAIN field.enum.value : call.out = Quote(field.enum.value[v])
            ELSE call.out = Quote(field.typeName)

\* C10: the configured environments appear in one fixed order: the documents
\* generated for one configuration all list their environments alike.
EnvironmentOrderFixed ==
    \A d1, d2 \in AllDocuments : EnvironmentIDs(d1) = EnvironmentIDs(d2)

====
